---- MODULE Spec2Model ----
(***************************************************************************)
(* Model of src/src/get-test-rule.ts: getTestRule(options) returns         *)
(* testRule(schema), which registers one leaf test per accept / reject     *)
(* case with the test runner; each leaf test is an async function that     *)
(* awaits the linting engine up to three times and asserts on its replies. *)
(*                                                                         *)
(* JavaScript objects are functions whose DOMAIN holds exactly the keys    *)
(* that carry a defined value: an optional property that is undefined is   *)
(* absent from the DOMAIN.  The engine (stylelint's lint) is external: its *)
(* reply to each call is drawn nondeterministically from a bounded set.    *)
(* One behaviour registers a schema and runs one of its leaf tests.        *)
(***************************************************************************)
EXTENDS Integers, Sequences, FiniteSets, TLC

VARIABLES
    options,                    \* argument of getTestRule
    schema,                     \* argument of testRule
    stylelintConfig,            \* the engine configuration built at line 168
    registered,                 \* leaf tests handed to the runner, in order
    pc,                         \* position of the leaf test being run
    kind,                       \* "accept" | "reject": which comparisons run
    testCase,                   \* the case of the leaf test being run
    calls,                      \* options of every lint() call made so far
    outputAfterLint,            \* results[0] of the first lint (line 188 / 223)
    outputAfterFix,             \* results[0] of the autofix lint (199 / 277)
    outputAfterLintOnFixedCode, \* results[0] of the re-lint (line 297)
    fixedCode,                  \* value returned by getOutputCss
    error                       \* what made the leaf test fail, "none" if nothing

vars == <<options, schema, stylelintConfig, registered, pc, kind, testCase,
          calls, outputAfterLint, outputAfterFix, outputAfterLintOnFixedCode,
          fixedCode, error>>

----------------------------------------------------------------------------
(* Bounds of the model.                                                    *)

\* longest list of expected warnings, and most diagnostics in one reply
MaxWarnings == 2

\* placeholder of an object-valued variable that is not assigned yet
Unset == [unset |-> TRUE]

\* placeholder of fixedCode before getOutputCss returned
NoCode == "<unassigned>"

Codes == {"", "a", "b"}

\* warnings the engine may report: endLine / endColumn are optional
ActualWarningSet ==
    { [text |-> "m1", line |-> 1, column |-> 1, endLine |-> 1, endColumn |-> 1],
      [text |-> "m1", line |-> 1, column |-> 1],
      [text |-> "m2", line |-> 2, column |-> 1] }

SeqsUpTo(S, n) == UNION { [1..k -> S] : k \in 0..n }

WarningLists == SeqsUpTo(ActualWarningSet, MaxWarnings)

ParseErrorLists == { <<>>, <<"CssSyntaxError">> }

\* _postcssResult of a reply: undefined, or an object that may lack root or opts
RenderablePostcss(css) == [root |-> [source |-> css], opts |-> [syntax |-> "css"]]

\* a processed-result handle without its root, or without its options
MalformedPostcss ==
    { [root |-> [source |-> "a"]], [opts |-> [syntax |-> "css"]] }

----------------------------------------------------------------------------
(* JavaScript helpers.                                                     *)

Has(o, k) == k \in DOMAIN o

\* truthiness of an optional boolean property
TruthyBool(o, k) == Has(o, k) /\ o[k] = TRUE

\* truthiness of an optional string property: undefined and '' are falsy
TruthyStr(o, k) == Has(o, k) /\ o[k] # ""

\* { [as]: o[k] }, nothing when o[k] is undefined
Prop(as, o, k) == [x \in (IF Has(o, k) THEN {as} ELSE {}) |-> o[k]]

----------------------------------------------------------------------------
(* The linting engine (external): the replies lint(opts) may resolve to.   *)
(* results[0] is modelled; postcssResult stands for _postcssResult and is  *)
(* absent when the engine left it undefined.                               *)

\* without autofix: any split of at most MaxWarnings diagnostics over the two
\* lists, with or without a parse error; the tree renders the code as given
LintReplies(code) ==
    { [warnings |-> d[2], invalidOptionWarnings |-> d[1], parseErrors |-> pe,
       postcssResult |-> RenderablePostcss(code)] :
        d \in { p \in WarningLists \X WarningLists :
                  Len(p[1]) + Len(p[2]) <= MaxWarnings },
        pe \in ParseErrorLists }

\* with autofix: residual warnings, and a tree that renders any text, lacks a
\* part, or is missing altogether
FixReplies ==
    { [warnings |-> w, invalidOptionWarnings |-> <<>>, parseErrors |-> pe] @@ r :
        w \in WarningLists,
        pe \in ParseErrorLists,
        r \in { [postcssResult |-> t] :
                  t \in { RenderablePostcss(c) : c \in Codes } \cup MalformedPostcss }
              \cup { [x \in {} |-> TRUE] } }

Replies(opts) ==
    IF TruthyBool(opts, "fix") THEN FixReplies ELSE LintReplies(opts.code)

----------------------------------------------------------------------------
(* getTestRule / testRule: registration.                                   *)

\* options.plugins || schema.plugins
ConfigPlugins(opts, sch) ==
    IF TruthyStr(opts, "plugins")
    THEN Prop("plugins", opts, "plugins")
    ELSE Prop("plugins", sch, "plugins")

StylelintConfig(opts, sch) ==
    ConfigPlugins(opts, sch) @@ [rules |-> (sch.ruleName :> sch.config)]

\* schema.only ? describe.only : schema.skip ? describe.skip : describe
TestGroup(sch) ==
    IF TruthyBool(sch, "only") THEN "describe.only"
    ELSE IF TruthyBool(sch, "skip") THEN "describe.skip"
    ELSE "describe"

\* testCase.only ? it.only : testCase.skip ? it.skip : it
LeafSpec(tc) ==
    IF TruthyBool(tc, "only") THEN "it.only"
    ELSE IF TruthyBool(tc, "skip") THEN "it.skip"
    ELSE "it"

\* the leaf tests setupTestCases registers for schema[name], each under the
\* group primitive chosen from the schema and the leaf primitive chosen from
\* the case; nothing when the list is missing or empty
SetupTestCases(name, sch) ==
    IF Has(sch, name) /\ Len(sch[name]) > 0
    THEN [ i \in 1..Len(sch[name]) |->
             [ name |-> name,
               testGroup |-> TestGroup(sch),
               spec |-> LeafSpec(sch[name][i]),
               testCase |-> sch[name][i] ] ]
    ELSE <<>>

\* { code, config, customSyntax, codeFilename }
StylelintOptions(tc, sch, config) ==
    [code |-> tc.code, config |-> config]
        @@ Prop("customSyntax", sch, "customSyntax")
        @@ Prop("codeFilename", sch, "codeFilename")

----------------------------------------------------------------------------
(* Assertion primitives of the runner, as the spec's glossary and the      *)
(* runner define them.                                                     *)

\* expect(received).toMatchObject(expected) on two flat objects: received
\* carries every key of expected with an equal value; other keys are ignored
ToMatchObject(received, expected) ==
    \A k \in DOMAIN expected : Has(received, k) /\ received[k] = expected[k]

\* toMatchObject on two arrays of objects: same length, element by element
ToMatchObjects(received, expected) ==
    /\ Len(received) = Len(expected)
    /\ \A i \in 1..Len(expected) : ToMatchObject(received[i], expected[i])

----------------------------------------------------------------------------
(* The comparisons of a leaf test.                                         *)

\* mutant: the assertion on invalidOptionWarnings is left out
AcceptLintOk_IgnoresInvalidOptions(result) ==
    /\ result.warnings = <<>>
    /\ result.parseErrors = <<>>

\* the three toEqual([]) of an accept case
AcceptLintOk(result) ==
    /\ result.warnings = <<>>
    /\ result.parseErrors = <<>>
    /\ result.invalidOptionWarnings = <<>>

\* mutant: the two lists are concatenated in the other order
ActualWarnings_RuleWarningsFirst(result) ==
    result.warnings \o result.invalidOptionWarnings

\* [...invalidOptionWarnings, ...warnings]
ActualWarnings(result) == result.invalidOptionWarnings \o result.warnings

\* testCase.warnings ? testCase.warnings.length : 1
ExpectedCount(tc) == IF Has(tc, "warnings") THEN Len(tc.warnings) ELSE 1

\* testCase.warnings || [testCase]
EffectiveWarnings(tc) == IF Has(tc, "warnings") THEN tc.warnings ELSE <<tc>>

\* { text: message, line, column, endLine, endColumn } minus undefined values
ExpectedWarning(warning) ==
    Prop("text", warning, "message")
        @@ Prop("line", warning, "line")
        @@ Prop("column", warning, "column")
        @@ Prop("endLine", warning, "endLine")
        @@ Prop("endColumn", warning, "endColumn")

\* mutant: an undefined message is skipped instead of asserted
WarningError_SkipsUndefinedMessage(warning, actual) ==
    IF ~ToMatchObject(actual, ExpectedWarning(warning)) THEN "assertion"
    ELSE "none"

\* one iteration of warnings.forEach: "none" when both expects pass
WarningError(warning, actual) ==
    IF ~Has(warning, "message") THEN "missingMessage"
    ELSE IF ~ToMatchObject(actual, ExpectedWarning(warning)) THEN "assertion"
    ELSE "none"

\* the assertions on the first lint of a reject case, in program order; the
\* first one that fails throws
LintStageError(tc, result) ==
    LET actualWarnings == ActualWarnings(result)
        warnings == EffectiveWarnings(tc)
        bad == { i \in 1..Len(warnings) :
                    WarningError(warnings[i], actualWarnings[i]) # "none" }
    IN  IF result.parseErrors # <<>> THEN "assertion"
        ELSE IF Len(actualWarnings) # ExpectedCount(tc) THEN "assertion"
        ELSE IF bad = {} THEN "none"
        ELSE LET first == CHOOSE i \in bad : \A j \in bad : i <= j
             IN  WarningError(warnings[first], actualWarnings[first])

\* mutant: the negation of testCase.unfixable is lost
MissingFixed_RequiresUnfixable(sch, tc) ==
    /\ TruthyBool(sch, "fix")
    /\ ~TruthyStr(tc, "fixed")
    /\ ~(Has(tc, "fixed") /\ tc.fixed = "")
    /\ TruthyBool(tc, "unfixable")

\* schema.fix && !testCase.fixed && testCase.fixed !== '' && !testCase.unfixable
MissingFixed(sch, tc) ==
    /\ TruthyBool(sch, "fix")
    /\ ~TruthyStr(tc, "fixed")
    /\ ~(Has(tc, "fixed") /\ tc.fixed = "")
    /\ ~TruthyBool(tc, "unfixable")

\* mutant: an unrenderable result yields the empty string instead of throwing
GetOutputCss_EmptyOnInvalid(output) ==
    IF /\ Has(output, "postcssResult")
       /\ Has(output.postcssResult, "root")
       /\ Has(output.postcssResult, "opts")
    THEN [threw |-> FALSE, css |-> output.postcssResult.root.source]
    ELSE [threw |-> FALSE, css |-> ""]

\* getOutputCss: the rendered text, or the thrown TypeError('Invalid result')
GetOutputCss(output) ==
    IF /\ Has(output, "postcssResult")
       /\ Has(output.postcssResult, "root")
       /\ Has(output.postcssResult, "opts")
    THEN [threw |-> FALSE, css |-> output.postcssResult.root.source]
    ELSE [threw |-> TRUE]

\* expect(fixedCode).toBe(testCase.fixed): toBe(undefined) fails for a string
ToBeFixed(code, tc) == Has(tc, "fixed") /\ code = tc.fixed

\* mutant: a fixable case is not required to change
FixStageOk_NoChangeCheck(tc, code) ==
    IF ~TruthyBool(tc, "unfixable")
    THEN ToBeFixed(code, tc)
    ELSE /\ (TruthyStr(tc, "fixed") => ToBeFixed(code, tc))
         /\ code = tc.code

\* the assertions on the autofix output of a reject case (lines 284-294)
FixStageOk(tc, code) ==
    IF ~TruthyBool(tc, "unfixable")
    THEN ToBeFixed(code, tc) /\ code # tc.code
    ELSE /\ (TruthyStr(tc, "fixed") => ToBeFixed(code, tc))
         /\ code = tc.code

\* mutant: the re-lint always enables autofix
RelintOptions_AlwaysFix(stylelintOptions, code, tc) ==
    [fix |-> TRUE, code |-> code] @@ stylelintOptions

\* { ...stylelintOptions, code: fixedCode, fix: testCase.unfixable }
RelintOptions(stylelintOptions, code, tc) ==
    Prop("fix", tc, "unfixable") @@ [code |-> code] @@ stylelintOptions

\* toMatchObject({ warnings: outputAfterFix.results[0].warnings, parseErrors: [] })
RelintOk(relint, afterFix) ==
    /\ ToMatchObjects(relint.warnings, afterFix.warnings)
    /\ relint.parseErrors = <<>>

----------------------------------------------------------------------------
(* Inputs: the options, schemas and cases a behaviour may start from.      *)

Nothing == [x \in {} |-> TRUE]

\* an optional property k: absent, or one of the values of S
Optional(k, S) == { Nothing } \cup { [x \in {k} |-> v] : v \in S }

BaseSchema == [ruleName |-> "plugin/rule", config |-> TRUE]

\* expected warnings of a reject case: any message or none, no position or
\* every position
ExpectedWarningSet ==
    { m @@ p :
        m \in Optional("message", {"m1", "m2"}),
        p \in { Nothing,
                [line |-> 1, column |-> 1, endLine |-> 1, endColumn |-> 1] } }

\* reject cases without autofix: the expectation on the case itself, or a
\* `warnings` list, with or without a message on the case beside it
LintCases ==
    { [code |-> "a"] @@ w : w \in ExpectedWarningSet }
    \cup { [code |-> "a", warnings |-> l] @@ m :
             l \in SeqsUpTo(ExpectedWarningSet, MaxWarnings),
             m \in Optional("message", {"m1"}) }

LintInputs ==
    { [options |-> Nothing, schema |-> BaseSchema @@ [reject |-> <<c>>]] :
        c \in LintCases }

\* reject cases under { fix: true }: every combination of code, fixed and
\* unfixable
FixCases ==
    { [code |-> c] @@ f @@ u @@ m :
        c \in {"a", "b"},
        f \in Optional("fixed", Codes),
        u \in Optional("unfixable", BOOLEAN),
        m \in Optional("message", {"m1"}) }

FixInputs ==
    { [options |-> Nothing,
       schema |-> BaseSchema @@ [fix |-> TRUE, reject |-> <<c>>]] :
        c \in FixCases }

AcceptInputs ==
    { [options |-> Nothing,
       schema |-> BaseSchema @@ f @@ [accept |-> <<[code |-> c]>>]] :
        c \in Codes, f \in Optional("fix", BOOLEAN) }

\* execution modifiers on the schema and on its cases, and schemas that lack
\* a list of cases or carry an empty one
ModeInputs ==
    { [options |-> Nothing,
       schema |-> BaseSchema @@ so @@ ss @@ a @@ r] :
        so \in Optional("only", {TRUE}),
        ss \in Optional("skip", {TRUE}),
        a \in UNION { Optional("accept", { <<>>, <<[code |-> "a"] @@ co @@ cs>> }) :
                        co \in Optional("only", {TRUE}),
                        cs \in Optional("skip", {TRUE}) },
        r \in UNION { Optional("reject", { <<>>, <<[code |-> "a", message |-> "m1"]
                                                     @@ co @@ cs>> }) :
                        co \in Optional("only", {TRUE}),
                        cs \in Optional("skip", {TRUE}) } }

\* plugin references of the factory and of the schema
PluginInputs ==
    { [options |-> o, schema |-> BaseSchema @@ sp @@ [accept |-> <<[code |-> "a"]>>]] :
        o \in Optional("plugins", {"", "./factory-plugin"}),
        sp \in Optional("plugins", {"./schema-plugin"}) }

Inputs == LintInputs \cup FixInputs \cup AcceptInputs \cup ModeInputs \cup PluginInputs

----------------------------------------------------------------------------
(* The state machine.                                                      *)

Init ==
    /\ \E in \in Inputs : options = in.options /\ schema = in.schema
    /\ stylelintConfig = Unset
    /\ registered = <<>>
    /\ pc = "unregistered"
    /\ kind = "none"
    /\ testCase = Unset
    /\ calls = <<>>
    /\ outputAfterLint = Unset
    /\ outputAfterFix = Unset
    /\ outputAfterLintOnFixedCode = Unset
    /\ fixedCode = NoCode
    /\ error = "none"

\* testRule(schema): builds the engine configuration and registers the leaf
\* tests of the accept group, then those of the reject group
TestRule ==
    /\ pc = "unregistered"
    /\ stylelintConfig' = StylelintConfig(options, schema)
    /\ registered' = SetupTestCases("accept", schema) \o SetupTestCases("reject", schema)
    /\ pc' = "collected"
    /\ UNCHANGED <<options, schema, kind, testCase, calls, outputAfterLint,
                   outputAfterFix, outputAfterLintOnFixedCode, fixedCode, error>>

\* the test function ends: it returned (pc "passed") or threw (pc "failed")
Finish(state, why) == pc' = state /\ error' = why

\* the registered leaf tests of a group
Leaves(name) == { i \in DOMAIN registered : registered[i].name = name }

\* the runner calls the test function of an accept leaf, which builds its
\* options and awaits lint(stylelintOptions)
RunAccept ==
    /\ pc = "collected"
    /\ \E i \in Leaves("accept") :
          /\ testCase' = registered[i].testCase
          /\ calls' = <<StylelintOptions(registered[i].testCase, schema, stylelintConfig)>>
    /\ kind' = "accept"
    /\ pc' = "acceptLint"
    /\ UNCHANGED <<options, schema, stylelintConfig, registered, outputAfterLint,
                   outputAfterFix, outputAfterLintOnFixedCode, fixedCode, error>>

\* the runner calls the test function of a reject leaf, which builds its
\* options and awaits lint(stylelintOptions)
RunReject ==
    /\ pc = "collected"
    /\ \E i \in Leaves("reject") :
          /\ testCase' = registered[i].testCase
          /\ calls' = <<StylelintOptions(registered[i].testCase, schema, stylelintConfig)>>
    /\ kind' = "reject"
    /\ pc' = "rejectLint"
    /\ UNCHANGED <<options, schema, stylelintConfig, registered, outputAfterLint,
                   outputAfterFix, outputAfterLintOnFixedCode, fixedCode, error>>

\* accept, lines 188-202: the first lint resolves
AcceptAfterLint ==
    /\ pc = "acceptLint"
    /\ \E r \in Replies(calls[1]) :
          /\ outputAfterLint' = r
          /\ IF ~AcceptLintOk(r)
             THEN Finish("failed", "assertion") /\ UNCHANGED calls
             ELSE IF ~TruthyBool(schema, "fix")
             THEN Finish("passed", "none") /\ UNCHANGED calls
             ELSE /\ calls' = Append(calls, [fix |-> TRUE] @@ calls[1])
                  /\ pc' = "acceptFix"
                  /\ UNCHANGED error
    /\ UNCHANGED <<options, schema, stylelintConfig, registered, kind, testCase,
                   outputAfterFix, outputAfterLintOnFixedCode, fixedCode>>

\* accept, lines 203-205: the autofix lint resolves
AcceptAfterFix ==
    /\ pc = "acceptFix"
    /\ \E r \in Replies(calls[2]) :
          /\ outputAfterFix' = r
          /\ LET out == GetOutputCss(r)
             IN  IF out.threw
                 THEN Finish("failed", "invalidResult") /\ UNCHANGED fixedCode
                 ELSE /\ fixedCode' = out.css
                      /\ IF out.css = testCase.code
                         THEN Finish("passed", "none")
                         ELSE Finish("failed", "assertion")
    /\ UNCHANGED <<options, schema, stylelintConfig, registered, kind, testCase,
                   calls, outputAfterLint, outputAfterLintOnFixedCode>>

\* reject, lines 223-280: the first lint resolves
RejectAfterLint ==
    /\ pc = "rejectLint"
    /\ \E r \in Replies(calls[1]) :
          /\ outputAfterLint' = r
          /\ LET failure == LintStageError(testCase, r)
             IN  IF failure # "none"
                 THEN Finish("failed", failure) /\ UNCHANGED calls
                 ELSE IF ~TruthyBool(schema, "fix")
                 THEN Finish("passed", "none") /\ UNCHANGED calls
                 ELSE IF MissingFixed(schema, testCase)
                 THEN Finish("failed", "fixContract") /\ UNCHANGED calls
                 ELSE /\ calls' = Append(calls, [fix |-> TRUE] @@ calls[1])
                      /\ pc' = "rejectFix"
                      /\ UNCHANGED error
    /\ UNCHANGED <<options, schema, stylelintConfig, registered, kind, testCase,
                   outputAfterFix, outputAfterLintOnFixedCode, fixedCode>>

\* reject, lines 282-301: the autofix lint resolves
RejectAfterFix ==
    /\ pc = "rejectFix"
    /\ \E r \in Replies(calls[2]) :
          /\ outputAfterFix' = r
          /\ LET out == GetOutputCss(r)
             IN  IF out.threw
                 THEN /\ Finish("failed", "invalidResult")
                      /\ UNCHANGED <<fixedCode, calls>>
                 ELSE /\ fixedCode' = out.css
                      /\ IF ~FixStageOk(testCase, out.css)
                         THEN Finish("failed", "assertion") /\ UNCHANGED calls
                         ELSE /\ calls' = Append(calls,
                                      RelintOptions(calls[1], out.css, testCase))
                              /\ pc' = "rejectRelint"
                              /\ UNCHANGED error
    /\ UNCHANGED <<options, schema, stylelintConfig, registered, kind, testCase,
                   outputAfterLint, outputAfterLintOnFixedCode>>

\* reject, lines 303-306: the re-lint of the fixed code resolves
RejectAfterRelint ==
    /\ pc = "rejectRelint"
    /\ \E r \in Replies(calls[3]) :
          /\ outputAfterLintOnFixedCode' = r
          /\ IF RelintOk(r, outputAfterFix)
             THEN Finish("passed", "none")
             ELSE Finish("failed", "assertion")
    /\ UNCHANGED <<options, schema, stylelintConfig, registered, kind, testCase,
                   calls, outputAfterLint, outputAfterFix, fixedCode>>

Next ==
    \/ TestRule
    \/ RunAccept
    \/ RunReject
    \/ AcceptAfterLint
    \/ AcceptAfterFix
    \/ RejectAfterLint
    \/ RejectAfterFix
    \/ RejectAfterRelint

Spec == Init /\ [][Next]_vars

----------------------------------------------------------------------------
(* Vocabulary of the properties, stated from the contract and not through  *)
(* the operators above.                                                    *)

Fix == Has(schema, "fix") /\ schema.fix = TRUE

Done == pc \in {"passed", "failed"}

Unfixable == Has(testCase, "unfixable") /\ testCase.unfixable = TRUE

\* the effective expected warnings: the `warnings` list if present, else the
\* case itself
Expected == IF "warnings" \in DOMAIN testCase THEN testCase.warnings ELSE <<testCase>>

\* invalid-option warnings first, then rule warnings
Reported(result) == result.invalidOptionWarnings \o result.warnings

\* the actual warning agrees with the expected one on every field the
\* expected one defines
Agree(expected, actual) ==
    /\ "message" \in DOMAIN expected =>
          "text" \in DOMAIN actual /\ actual.text = expected.message
    /\ \A f \in {"line", "column", "endLine", "endColumn"} :
          f \in DOMAIN expected => f \in DOMAIN actual /\ actual[f] = expected[f]

\* no parse error, as many warnings as expected, each agreeing with its
\* expectation
LintExpectationMet ==
    /\ outputAfterLint.parseErrors = <<>>
    /\ Len(Reported(outputAfterLint)) = Len(Expected)
    /\ \A i \in 1..Len(Expected) : Agree(Expected[i], Reported(outputAfterLint)[i])

EveryMessageDefined == \A i \in 1..Len(Expected) : "message" \in DOMAIN Expected[i]

\* the engine result carries a tree with a root node and processing options
Renderable(result) ==
    /\ "postcssResult" \in DOMAIN result
    /\ {"root", "opts"} \subseteq DOMAIN result.postcssResult

AutofixCalls == { i \in 1..Len(calls) : "fix" \in DOMAIN calls[i] /\ calls[i].fix = TRUE }

----------------------------------------------------------------------------
(* C1 *)

\* C1 as stated: a finished reject test without autofix passed if and only if
\* there is no parse error, invalidOptionWarnings followed by warnings has the
\* expected length, and every expected warning agrees with the actual one at
\* its index on the fields it defines.
C1_AsStated ==
    (kind = "reject" /\ ~Fix /\ Done) => (pc = "passed" <=> LintExpectationMet)

\* C1 amended: ... if and only if, in addition, every expected warning defines
\* its message.
C1_RejectPassesIffExpectationMet ==
    (kind = "reject" /\ ~Fix /\ Done) =>
        (pc = "passed" <=> (LintExpectationMet /\ EveryMessageDefined))

\* a reject test passed on two warnings, the first an invalid-option warning,
\* with an expectation that leaves the positions undefined
C1_Witness ==
    /\ kind = "reject" /\ ~Fix /\ pc = "passed"
    /\ Len(outputAfterLint.invalidOptionWarnings) = 1
    /\ Len(outputAfterLint.warnings) = 1
    /\ outputAfterLint.invalidOptionWarnings[1].text # outputAfterLint.warnings[1].text
    /\ \E i \in 1..Len(Expected) : "line" \notin DOMAIN Expected[i]

----------------------------------------------------------------------------
(* C2 *)

\* C2: an accept test passes only if the first reply has no warnings, no parse
\* errors and no invalid-option warnings; under fix it passes only if a second
\* call, the first call with fix enabled, rendered exactly the case's code;
\* without fix no call ever enables autofix.
C2_AcceptPassesOnlyIfClean ==
    kind = "accept" =>
        /\ pc = "passed" =>
              /\ outputAfterLint.warnings = <<>>
              /\ outputAfterLint.parseErrors = <<>>
              /\ outputAfterLint.invalidOptionWarnings = <<>>
              /\ calls[1].code = testCase.code
        /\ (pc = "passed" /\ Fix) =>
              /\ Len(calls) = 2
              /\ calls[2] = [fix |-> TRUE] @@ calls[1]
              /\ Renderable(outputAfterFix)
              /\ outputAfterFix.postcssResult.root.source = testCase.code
        /\ ~Fix => AutofixCalls = {} /\ Len(calls) <= 1

\* an accept test passed under fix after its autofix call
C2_Witness == kind = "accept" /\ Fix /\ pc = "passed" /\ AutofixCalls = {2}

----------------------------------------------------------------------------
(* C3 *)

\* C3 as stated: whenever the schema supplies plugins, the configuration built
\* by testRule, and passed to the engine, carries the schema's plugins.
C3_SchemaPluginsWin ==
    (pc # "unregistered" /\ "plugins" \in DOMAIN schema) =>
        /\ "plugins" \in DOMAIN stylelintConfig
        /\ stylelintConfig.plugins = schema.plugins
        /\ \A i \in 1..Len(calls) : calls[i].config.plugins = schema.plugins

----------------------------------------------------------------------------
(* C4 *)

\* the case supplies neither `fixed` (the empty string counts) nor `unfixable`
NeitherFixedNorUnfixable == "fixed" \notin DOMAIN testCase /\ ~Unfixable

\* C4 as stated: under fix, a reject case with neither `fixed` nor `unfixable`
\* fails with the fix-contract error before any engine call, whatever the
\* engine would report.
C4_AsStated ==
    (kind = "reject" /\ Fix /\ NeitherFixedNorUnfixable) =>
        /\ calls = <<>>
        /\ Done => error = "fixContract"

\* C4 amended: such a test never passes and makes exactly one engine call, the
\* plain lint, never an autofix call; it ends with the fix-contract error when
\* the assertions on that first lint hold, and with their failure otherwise.
C4_FixContractAfterFirstLint ==
    (kind = "reject" /\ Fix /\ NeitherFixedNorUnfixable) =>
        /\ pc \in {"rejectLint", "failed"}
        /\ Len(calls) = 1 /\ AutofixCalls = {}
        /\ Done => (error = "fixContract"
                        <=> (LintExpectationMet /\ EveryMessageDefined))

\* the fix-contract error was raised after a first lint that met the
\* expectation
C4_Witness ==
    /\ kind = "reject" /\ Fix /\ NeitherFixedNorUnfixable
    /\ error = "fixContract" /\ Len(calls) = 1

----------------------------------------------------------------------------
(* C5 *)

\* the assertions on the autofix output passed: the re-lint was called
FixStagePassed == kind = "reject" /\ Fix /\ Len(calls) = 3

\* C5: under fix, the fix stage of a reject case not marked unfixable passes
\* only if the text rendered from the one autofix call equals `fixed` and
\* differs from `code`; a case declaring `fixed` equal to `code` never passes.
C5_FixableMustChangeToFixed ==
    (kind = "reject" /\ Fix /\ ~Unfixable) =>
        /\ FixStagePassed =>
              /\ AutofixCalls = {2}
              /\ Renderable(outputAfterFix)
              /\ fixedCode = outputAfterFix.postcssResult.root.source
              /\ "fixed" \in DOMAIN testCase /\ fixedCode = testCase.fixed
              /\ fixedCode # testCase.code
        /\ ("fixed" \in DOMAIN testCase /\ testCase.fixed = testCase.code) =>
              pc # "passed" /\ ~FixStagePassed

\* a fixable case whose declared fix is the empty string passed its fix stage
C5_Witness ==
    /\ FixStagePassed /\ ~Unfixable
    /\ testCase.fixed = "" /\ fixedCode = ""

----------------------------------------------------------------------------
(* C6 *)

\* C6 as stated: under fix, the fix stage of a reject case marked unfixable
\* passes only if the autofix output equals `code` and, whenever `fixed` is
\* supplied (the empty string included), equals `fixed` too.
C6_UnfixableChecksSuppliedFixed ==
    (FixStagePassed /\ Unfixable) =>
        /\ fixedCode = testCase.code
        /\ "fixed" \in DOMAIN testCase => fixedCode = testCase.fixed

----------------------------------------------------------------------------
(* C7 *)

\* the re-lint follows the autofix pass and its assertions, lints the fixed
\* text, and enables autofix exactly when the case is marked unfixable
RelintAfterFixStage ==
    /\ Len(calls) = 3
    /\ "fix" \in DOMAIN calls[2] /\ calls[2].fix = TRUE
    /\ "fix" \notin DOMAIN calls[1]
    /\ outputAfterFix # Unset /\ fixedCode # NoCode
    /\ calls[3].code = fixedCode
    /\ calls[3].config = calls[1].config
    /\ ("fix" \in DOMAIN calls[3] /\ calls[3].fix = TRUE) <=> Unfixable
    /\ IF Unfixable THEN fixedCode = testCase.code ELSE fixedCode = testCase.fixed

\* C7 as stated: a reject test under fix passes only after a third call as
\* above whose warnings equal those of the autofix pass and whose parseErrors
\* are empty.
C7_AsStated ==
    (kind = "reject" /\ Fix) =>
        /\ pc \in {"rejectRelint", "passed"} => RelintAfterFixStage
        /\ pc = "passed" =>
              /\ outputAfterLintOnFixedCode.warnings = outputAfterFix.warnings
              /\ outputAfterLintOnFixedCode.parseErrors = <<>>

\* C7 amended: ... whose warnings are as many as those of the autofix pass,
\* each carrying every field of the autofix pass's warning at its index with
\* an equal value (fields only the re-lint reports are not compared), and
\* whose parseErrors are empty.
C7_RelintMatchesFixPass ==
    (kind = "reject" /\ Fix) =>
        /\ pc \in {"rejectRelint", "passed"} => RelintAfterFixStage
        /\ outputAfterLintOnFixedCode # Unset => RelintAfterFixStage
        /\ pc = "passed" =>
              /\ Len(outputAfterLintOnFixedCode.warnings) = Len(outputAfterFix.warnings)
              /\ \A i \in 1..Len(outputAfterFix.warnings) :
                    \A f \in DOMAIN outputAfterFix.warnings[i] :
                        /\ f \in DOMAIN outputAfterLintOnFixedCode.warnings[i]
                        /\ outputAfterLintOnFixedCode.warnings[i][f]
                               = outputAfterFix.warnings[i][f]
              /\ outputAfterLintOnFixedCode.parseErrors = <<>>

\* an unfixable case passed after a re-lint with autofix enabled that
\* reported the residual warning of the autofix pass
C7_Witness ==
    /\ kind = "reject" /\ Fix /\ Unfixable /\ pc = "passed"
    /\ calls[3].fix = TRUE
    /\ Len(outputAfterFix.warnings) = 1

----------------------------------------------------------------------------
(* C8 *)

\* C8: a reject test one of whose effective expected warnings has no message
\* never passes and never reaches the autofix stage, whatever the engine
\* reports.
C8_UndefinedMessageFails ==
    (kind = "reject" /\ ~EveryMessageDefined) =>
        /\ pc \in {"rejectLint", "failed"}
        /\ Len(calls) = 1

\* the test failed on the undefined message of the second entry of a
\* `warnings` list, the engine having reported two warnings
C8_Witness ==
    /\ kind = "reject" /\ error = "missingMessage"
    /\ "warnings" \in DOMAIN testCase /\ Len(testCase.warnings) = 2
    /\ "message" \in DOMAIN testCase.warnings[1]
    /\ "message" \notin DOMAIN testCase.warnings[2]

----------------------------------------------------------------------------
(* C10 *)

\* C10: the fixed text is the rendering of a tree that has a root node and
\* processing options; an autofix reply without such a tree fails the test
\* with the "Invalid result" error, no text is extracted or compared, and no
\* re-lint is called.
C10_InvalidResultThrows ==
    /\ fixedCode # NoCode =>
          /\ Renderable(outputAfterFix)
          /\ fixedCode = outputAfterFix.postcssResult.root.source
    /\ (outputAfterFix # Unset /\ ~Renderable(outputAfterFix)) =>
          /\ pc = "failed" /\ error = "invalidResult"
          /\ fixedCode = NoCode
          /\ Len(calls) = 2
          /\ outputAfterLintOnFixedCode = Unset
    /\ error = "invalidResult" => ~Renderable(outputAfterFix)

\* a reject test failed with "Invalid result" on a tree that has a root node
\* but no processing options
C10_Witness ==
    /\ kind = "reject" /\ error = "invalidResult"
    /\ "postcssResult" \in DOMAIN outputAfterFix
    /\ "root" \in DOMAIN outputAfterFix.postcssResult

====
